---- MODULE Spec2Model ----
(***************************************************************************)
(* NeoDNS: the query-resolution engine of dns_server.py and the time-bound *)
(* resolution cache of sqlite_database.py.                                 *)
(*                                                                         *)
(* A name is a sequence of labels (<<"nas","home","test">> is the text     *)
(* "nas.home.test"); joining with '.' and comparing the texts is comparing *)
(* the sequences, string suffix on '.'+domain is a proper label suffix.    *)
(* The cache table is the sequence of its rows in rowid order, so that a   *)
(* duplicated key is a state the model can be in.                          *)
(* The receive loop is one thread whose position is pc; every database     *)
(* statement it executes is a step of its own, so that the detached writer *)
(* threads of earlier queries interleave with it as they do in the         *)
(* program.  A writer's DELETE and INSERT run in one sqlite transaction    *)
(* (implicit BEGIN before the first DML statement, conn.commit() at the    *)
(* end), which other connections observe as one step.                      *)
(***************************************************************************)
EXTENDS Integers, Sequences, FiniteSets, Bags, TLC

VARIABLES
    config,     \* the loaded special_domains, in configured order
    now,        \* int(time.time())
    db,         \* rows of domain_resolutions, in rowid order
    writers,    \* bag of started store_ip_in_db threads not yet finished
    pc,         \* position of the receive loop
    path,       \* branch of handle_dns_query: "match", "mdns" or "fwd"
    inCde,      \* TRUE inside create_dns_entry, FALSE in resolve_dns_entry
    qname,      \* query name of the datagram being handled
    match,      \* what the matching loop found for qname
    domain,     \* cache key of the query: domain
    subdomain,  \* cache key of the query: subdomain, NoSub when None
    ip,         \* create_dns_entry's (and resolve_mdns's) local ip
    fwdIp,      \* resolve_dns_entry's local ip
    cached,     \* what the last validity check of this query saw
    lookups,    \* public DNS lookups made while handling this query
    response,   \* the response being returned
    upResp,     \* what the upstream answered to this query, if asked
    nq,         \* datagrams received so far
    replies,    \* datagrams sent so far
    ioFailed,   \* a cache operation of this query hit a storage error
    replaced,   \* some store_ip_in_db found an entry of its key in place
    res,        \* get_ip_or_domain applied on its own: target, lookups, results
    nrm         \* the name handling of handle_dns_query applied on its own

vars == <<config, now, db, writers, pc, path, inCde, qname, match, domain,
          subdomain, ip, fwdIp, cached, lookups, response, upResp, nq,
          replies, ioFailed, replaced, res, nrm>>

(* The state of the server proper. *)
loopVars == <<config, now, db, writers, pc, path, inCde, qname, match, domain,
              subdomain, ip, fwdIp, cached, lookups, response, upResp, nq,
              replies, ioFailed, replaced>>

(* ------------------------------ bounds --------------------------------- *)
MaxQueries == 2
MaxTime == 302
MaxRaceQueries == 3
TimeSteps == {150, 151}

(* ------------------------- program constants --------------------------- *)
five_minutes == 5 * 60
RecordTtl == 3600

(* ------------------------------ values --------------------------------- *)
None == "<None>"
NoSub == <<>>

IPv4Literals == {"192.168.1.10", "192.168.1.20", "192.168.1.50", "93.184.216.34"}
IPv6Literals == {"fd00::50"}
LocalNames == {"printer.local"}

is_valid_ip(s) ==
    IF s \in IPv4Literals THEN "IPv4"
    ELSE IF s \in IPv6Literals THEN "IPv6"
    ELSE None

EndsWithLocal(s) == s \in LocalNames

Str(x) == IF x = None THEN "None" ELSE x

(* The configurations the server may have loaded. *)
HomeTest == <<"home", "test">>

CfgScenario ==
    << [domain |-> HomeTest, ip |-> "192.168.1.10",
        subdomains |-> (<<"nas">> :> "192.168.1.20")] >>

CfgOverlap ==
    << [domain |-> <<"test">>, ip |-> "192.168.1.50",
        subdomains |-> (<<"home">> :> "192.168.1.20")],
       [domain |-> HomeTest, ip |-> "192.168.1.10",
        subdomains |-> (<<"nas">> :> "192.168.1.20")] >>

CfgDynamic ==
    << [domain |-> HomeTest, ip |-> "nas.example",
        subdomains |-> (<<"nas">> :> "printer.local")] >>

Configs == {CfgScenario, CfgOverlap, CfgDynamic}

QNames == {HomeTest, <<"nas", "home", "test">>, <<"example", "org">>,
           <<"www", "example", "org">>}

(* The names as datagrams carry them: from_wire gives absolute names, whose
   text ends with the separator, i.e. whose last label is the empty root
   label.  The letters arrive as the client wrote them. *)
WireNames == {q \o <<"">> : q \in QNames}

MixedCaseNames == {<<"Home", "Test", "">>, <<"NAS", "home", "test", "">>,
                   <<"nas", "HOME", "test", "">>}

(* str.strip('.'): leading and trailing separators go, i.e. the empty
   labels at both ends of the sequence. *)
RECURSIVE StripDots(_)
StripDots(q) ==
    IF q = <<>> THEN q
    ELSE IF q[Len(q)] = "" THEN StripDots(SubSeq(q, 1, Len(q) - 1))
    ELSE IF q[1] = "" THEN StripDots(Tail(q))
    ELSE q

(* qname = query.question[0].name.to_text().strip('.') *)
qname_of(wire) == StripDots(wire)

(* qname as text, for the one place that uses it as a string. *)
Text(q) ==
    CASE q = HomeTest -> "home.test"
      [] q = <<"nas", "home", "test">> -> "nas.home.test"
      [] q = <<"example", "org">> -> "example.org"
      [] q = <<"www", "example", "org">> -> "www.example.org"
      [] OTHER -> "other.name"

(* What the public DNS lookup of get_ip_or_domain can come back with. *)
LookupOutcomes == {"93.184.216.34", "192.168.1.50", "fail"}

(* What avahi-resolve can do: the call raises, exits non-zero, or exits 0
   with stdout that splits on TAB into these fields. *)
MdnsOutcomes ==
    { [raised |-> TRUE, returncode |-> 1, fields |-> <<>>],
      [raised |-> FALSE, returncode |-> 1, fields |-> <<>>],
      [raised |-> FALSE, returncode |-> 0, fields |-> <<"printer.local">>],
      [raised |-> FALSE, returncode |-> 0, fields |-> <<"printer.local", "garbage">>],
      [raised |-> FALSE, returncode |-> 0, fields |-> <<"printer.local", "192.168.1.50">>],
      [raised |-> FALSE, returncode |-> 0, fields |-> <<"printer.local", "fd00::50">>] }

(* What dns.query.udp can come back with: a response message of the
   upstream, or an exception. *)
UpstreamResponses ==
    { [rcode |-> "NOERROR", from |-> "upstream",
       answer |-> <<[name |-> <<"upstream">>, type |-> "A", ttl |-> 60,
                     ip |-> "93.184.216.34"]>>],
      [rcode |-> "NXDOMAIN", from |-> "upstream", answer |-> <<>>] }
UpstreamRaises == [rcode |-> "raise", from |-> "upstream", answer |-> <<>>]
UpstreamOutcomes == UpstreamResponses \cup {UpstreamRaises}

(* Message values.  NoMessage is Python's None where a message is expected. *)
NoMessage == [rcode |-> "None", from |-> "none", answer |-> <<>>]
ServFail == [rcode |-> "SERVFAIL", from |-> "local", answer |-> <<>>]

(* ---------------------------- pure functions --------------------------- *)

(* get_ip_or_domain with the except clause left out. *)
lookup_without_except(input_str, outcome) ==
    IF is_valid_ip(input_str) # None THEN input_str
    ELSE outcome

(* get_ip_or_domain: a literal is returned as it is; anything else is
   looked up, and a failed lookup returns the input. *)
get_ip_or_domain(input_str, outcome) ==
    IF is_valid_ip(input_str) # None THEN input_str
    ELSE IF outcome = "fail" THEN input_str
    ELSE outcome

NeedsLookup(input_str) == is_valid_ip(input_str) = None

(* create_dns_record: an A or AAAA record set of one address; it raises
   ValueError when ip is no literal (RecordRaises). *)
RecordRaises(addr) == is_valid_ip(addr) = None

create_dns_record(name, ttl, addr) ==
    [name |-> name,
     type |-> IF is_valid_ip(addr) = "IPv4" THEN "A" ELSE "AAAA",
     ttl |-> ttl,
     ip |-> addr]

(* qname.endswith('.' + domain) *)
EndsWithDotDomain(q, d) ==
    /\ Len(q) > Len(d)
    /\ SubSeq(q, Len(q) - Len(d) + 1, Len(q)) = d

(* qname[:len(qname) - len(domain) - 1] *)
SubdomainPart(q, d) == SubSeq(q, 1, Len(q) - Len(d))

NoMatch == [kind |-> "NoMatch", domain |-> <<>>, subdomain |-> NoSub,
            target |-> None]

(* The matching loop of handle_dns_query from entry i on: per configured
   domain, the exact test first and the subdomain test second. *)
RECURSIVE MatchFrom(_, _, _)
MatchFrom(cfg, q, i) ==
    IF i > Len(cfg) THEN NoMatch
    ELSE IF q = cfg[i].domain
    THEN [kind |-> "ExactDomain", domain |-> cfg[i].domain,
          subdomain |-> NoSub, target |-> cfg[i].ip]
    ELSE IF /\ EndsWithDotDomain(q, cfg[i].domain)
            /\ SubdomainPart(q, cfg[i].domain) \in DOMAIN cfg[i].subdomains
    THEN [kind |-> "Subdomain", domain |-> cfg[i].domain,
          subdomain |-> SubdomainPart(q, cfg[i].domain),
          target |-> cfg[i].subdomains[SubdomainPart(q, cfg[i].domain)]]
    ELSE MatchFrom(cfg, q, i + 1)

Match(cfg, q) == MatchFrom(cfg, q, 1)

(* separate_domain_and_subdomain: the last two labels are the domain. *)
separate_domain_and_subdomain(q) ==
    IF Len(q) > 2
    THEN [subdomain |-> SubSeq(q, 1, Len(q) - 2),
          domain |-> SubSeq(q, Len(q) - 1, Len(q))]
    ELSE [subdomain |-> NoSub, domain |-> q]

(* f"{subdomain}.{domain}" if subdomain else domain *)
FullDomain(d, s) == s \o d

(* ------------------------------ the cache ------------------------------ *)

(* WHERE domain = ? AND subdomain = ?   /   ... AND subdomain IS NULL *)
SelectRows(table, d, s) ==
    LET Hit(r) == r.domain = d /\ r.subdomain = s
    IN SelectSeq(table, Hit)

DeleteRows(table, d, s) ==
    LET Keep(r) == ~(r.domain = d /\ r.subdomain = s)
    IN SelectSeq(table, Keep)

(* INSERT OR REPLACE under PRIMARY KEY (domain, subdomain): a row whose
   subdomain is NULL conflicts with no row, NULLs being distinct in a
   sqlite key. *)
InsertOrReplace(table, row) ==
    IF row.subdomain # NoSub
    THEN Append(DeleteRows(table, row.domain, row.subdomain), row)
    ELSE Append(table, row)

(* store_ip_in_db with the DELETE left out: the INSERT OR REPLACE alone. *)
store_without_delete(table, d, s, addr, ts) ==
    IF addr = None THEN table
    ELSE InsertOrReplace(table,
                         [domain |-> d, subdomain |-> s, ip |-> addr,
                          timestamp |-> ts])

(* store_ip_in_db whose DELETE is committed by itself and whose INSERT is
   lost when there was an entry to delete. *)
store_delete_alone(table, d, s, addr, ts) ==
    IF addr = None THEN table
    ELSE IF SelectRows(table, d, s) # <<>> THEN DeleteRows(table, d, s)
    ELSE InsertOrReplace(table,
                         [domain |-> d, subdomain |-> s, ip |-> addr,
                          timestamp |-> ts])

(* store_ip_in_db's transaction: DELETE the key, INSERT OR REPLACE the row.
   ip TEXT NOT NULL: storing None fails and the transaction is dropped. *)
store_ip_in_db(table, d, s, addr, ts) ==
    IF addr = None THEN table
    ELSE InsertOrReplace(DeleteRows(table, d, s),
                         [domain |-> d, subdomain |-> s, ip |-> addr,
                          timestamp |-> ts])

(* get_ip_from_db: the ip of the first row of the key, or None. *)
get_ip_from_db(table, d, s) ==
    IF SelectRows(table, d, s) = <<>> THEN None
    ELSE SelectRows(table, d, s)[1].ip

(* check_if_resolution_valid up to its DELETE: what the SELECT and the age
   test find. *)
Expired(ts, t) == t - ts > five_minutes

check_select(table, d, s, t) ==
    IF SelectRows(table, d, s) = <<>> THEN "absent"
    ELSE IF Expired(SelectRows(table, d, s)[1].timestamp, t) THEN "expired"
    ELSE "valid"

(* The DELETE of check_if_resolution_valid, "WHERE domain = ? AND
   subdomain = ?": with a subdomain it is bound (domain, subdomain); without
   one it is bound (domain,), one value for two placeholders, and sqlite3
   raises ProgrammingError before executing anything. *)
ExpiryDeleteRaises(s) == s = NoSub

expiry_delete(table, d, s) == DeleteRows(table, d, s)

(* ------------------------------ the state ------------------------------ *)

NoStamp == 0 - 1

(* A started writer thread: the arguments of store_ip_in_db and the
   timestamp it has taken.  resolved records where ip came from: TRUE when
   the query that started the thread obtained it from get_ip_or_domain,
   FALSE when it read it from the cache. *)
Writer(d, s, addr, fresh) ==
    [domain |-> d, subdomain |-> s, ip |-> addr, ts |-> NoStamp,
     resolved |-> fresh]

InitLoop ==
    /\ config \in Configs
    /\ now = 0
    /\ db = <<>>
    /\ writers = EmptyBag
    /\ pc = "recv"
    /\ path = "none"
    /\ inCde = FALSE
    /\ qname = <<>>
    /\ match = NoMatch
    /\ domain = <<>>
    /\ subdomain = NoSub
    /\ ip = None
    /\ fwdIp = None
    /\ cached = "none"
    /\ lookups = 0
    /\ response = NoMessage
    /\ upResp = NoMessage
    /\ nq = 0
    /\ replies = 0
    /\ ioFailed = FALSE
    /\ replaced = FALSE

(* res and nrm take no part in the server's run. *)
IdleRes == [stage |-> 0 - 1, x |-> None, env |-> <<>>, r1 |-> None, r2 |-> None]
IdleNrm == [stage |-> 0 - 1, wire |-> <<>>, got |-> NoMatch]

Init ==
    /\ InitLoop
    /\ res = IdleRes
    /\ nrm = IdleNrm

(* handle_dns_query without the try around resolve_dns_entry. *)
Raise_Uncaught ==
    /\ response' = NoMessage
    /\ pc' = "crashed"

(* An exception leaves create_dns_entry, resolve_dns_entry or a cache
   call.  On the no-match path handle_dns_query's try catches it and
   answers SERVFAIL.  Inside resolve_mdns the except clause returns
   make_response(query).set_rcode(SERVFAIL), which is None, and
   handle_dns_query's response.to_wire() raises; on the matched path nothing
   catches it.  Either way it leaves the while loop of start_dns_server,
   which logs and re-raises. *)
Raise ==
    IF path = "fwd"
    THEN /\ response' = ServFail
         /\ pc' = "send"
    ELSE /\ response' = NoMessage
         /\ pc' = "crashed"

(* recvfrom, from_wire, and the matching loop of handle_dns_query. *)
ReceiveN(wire, max) ==
    /\ pc = "recv"
    /\ nq < max
    /\ nq' = nq + 1
    /\ qname' = qname_of(wire)
    /\ match' = Match(config, qname')
    /\ lookups' = 0
    /\ cached' = "none"
    /\ upResp' = NoMessage
    /\ response' = NoMessage
    /\ ioFailed' = FALSE
    /\ fwdIp' = None
    /\ IF match'.kind = "NoMatch"
       THEN /\ path' = "fwd"
            /\ domain' = separate_domain_and_subdomain(qname').domain
            /\ subdomain' = separate_domain_and_subdomain(qname').subdomain
            /\ ip' = None
            /\ inCde' = FALSE
            /\ pc' = "check"
       ELSE /\ domain' = match'.domain
            /\ subdomain' = match'.subdomain
            /\ ip' = match'.target
            /\ IF EndsWithLocal(match'.target)
               THEN path' = "mdns" /\ inCde' = FALSE /\ pc' = "mdns"
               ELSE path' = "match" /\ inCde' = TRUE /\ pc' = "check"
    /\ UNCHANGED <<res, nrm, replaced, config, now, db, writers, replies>>

Receive(wire) == ReceiveN(wire, MaxQueries)

MdnsSucceeds(out) ==
    /\ ~out.raised
    /\ out.returncode = 0
    /\ Len(out.fields) >= 2
    /\ is_valid_ip(out.fields[2]) # None

(* resolve_mdns up to its call of create_dns_entry. *)
ResolveMdns(out) ==
    /\ pc = "mdns"
    /\ IF MdnsSucceeds(out)
       THEN /\ ip' = out.fields[2]
            /\ inCde' = TRUE
            /\ pc' = "check"
            /\ UNCHANGED response
       ELSE /\ response' = NoMessage
            /\ pc' = "crashed"
            /\ UNCHANGED <<ip, inCde>>
    /\ UNCHANGED <<res, nrm, replaced, config, now, db, writers, path, qname, match, domain,
                   subdomain, fwdIp, cached, lookups, upResp, nq, replies, ioFailed>>

(* Where check_if_resolution_valid returns to: create_dns_entry reads the
   old ip or resolves; resolve_dns_entry reads the ip or forwards. *)
AfterCheck(valid) ==
    IF valid THEN pc' = "get"
    ELSE IF inCde THEN pc' = "resolve"
    ELSE pc' = "forward"

(* check_if_resolution_valid: current_time, the SELECT and the age test. *)
CheckSelect ==
    /\ pc = "check"
    /\ cached' = check_select(db, domain, subdomain, now)
    /\ IF cached' = "expired"
       THEN pc' = "expire"
       ELSE AfterCheck(cached' = "valid")
    /\ UNCHANGED <<res, nrm, replaced, config, now, db, writers, path, inCde, qname, match,
                   domain, subdomain, ip, fwdIp, lookups, response, upResp,
                   nq, replies, ioFailed>>

(* check_if_resolution_valid: the DELETE of the expired entry, its commit
   and return False. *)
CheckExpire ==
    /\ pc = "expire"
    /\ IF ExpiryDeleteRaises(subdomain)
       THEN Raise /\ UNCHANGED db
       ELSE /\ db' = expiry_delete(db, domain, subdomain)
            /\ AfterCheck(FALSE)
            /\ UNCHANGED response
    /\ UNCHANGED <<res, nrm, replaced, config, now, writers, path, inCde, qname, match, domain,
                   subdomain, ip, fwdIp, cached, lookups, upResp, nq,
                   replies, ioFailed>>

(* The threads a returning query leaves behind: create_dns_entry starts
   one for its ip; on the no-match path resolve_dns_entry then starts a
   second one for its own ip. *)
Spawned(addr) ==
    IF path = "fwd"
    THEN SetToBag({Writer(domain, subdomain, addr, pc = "resolve")})
         (+) SetToBag({Writer(domain, subdomain, fwdIp, FALSE)})
    ELSE SetToBag({Writer(domain, subdomain, addr, pc = "resolve")})

(* create_dns_entry from full_domain on: the response with its one record,
   the writer thread, the return. *)
Build(addr) ==
    /\ ip' = addr
    /\ IF RecordRaises(addr)
       THEN Raise /\ UNCHANGED writers
       ELSE /\ response' =
                 [rcode |-> "NOERROR", from |-> "local",
                  answer |-> <<create_dns_record(FullDomain(domain, subdomain),
                                                 RecordTtl, addr)>>]
            /\ writers' = writers (+) Spawned(addr)
            /\ pc' = "send"

(* get_ip_from_db after a check that returned True.  In resolve_dns_entry
   the result is the ip handed to create_dns_entry; in create_dns_entry it
   is old_ip, compared as text with ip. *)
GetIp ==
    /\ pc = "get"
    /\ IF inCde
       THEN /\ IF Str(get_ip_from_db(db, domain, subdomain)) # Str(ip)
               THEN pc' = "resolve" /\ UNCHANGED <<ip, response, writers>>
               ELSE Build(get_ip_from_db(db, domain, subdomain))
            /\ UNCHANGED <<fwdIp, inCde>>
       ELSE /\ fwdIp' = get_ip_from_db(db, domain, subdomain)
            /\ ip' = fwdIp'
            /\ inCde' = TRUE
            /\ pc' = "check"
            /\ UNCHANGED <<response, writers>>
    /\ UNCHANGED <<res, nrm, replaced, config, now, db, path, qname, match, domain, subdomain,
                   cached, lookups, upResp, nq, replies, ioFailed>>

(* create_dns_entry: ip = get_ip_or_domain(ip), then the rest of the
   function.  get_ip_or_domain(None) raises TypeError in inet_pton. *)
Resolve(outcome) ==
    /\ pc = "resolve"
    /\ IF ip = None
       THEN Raise /\ UNCHANGED <<ip, writers, lookups>>
       ELSE /\ lookups' = lookups + (IF NeedsLookup(ip) THEN 1 ELSE 0)
            /\ Build(get_ip_or_domain(ip, outcome))
    /\ UNCHANGED <<res, nrm, replaced, config, now, db, path, inCde, qname, match, domain,
                   subdomain, fwdIp, cached, upResp, nq, replies,
                   ioFailed>>

(* resolve_dns_entry without a valid entry: the lookup of qname for the
   cache, the upstream query, the writer thread. *)
Forward(outcome, up) ==
    /\ pc = "forward"
    /\ fwdIp' = get_ip_or_domain(Text(qname), outcome)
    /\ lookups' = lookups + 1
    /\ upResp' = up
    /\ IF up = UpstreamRaises
       THEN Raise /\ UNCHANGED writers
       ELSE /\ response' = up
            /\ writers' = writers (+) SetToBag({Writer(domain, subdomain, fwdIp', TRUE)})
            /\ pc' = "send"
    /\ UNCHANGED <<res, nrm, replaced, config, now, db, path, inCde, qname, match, domain,
                   subdomain, ip, cached, nq, replies, ioFailed>>

(* The loop joining the writer threads before it sends. *)
Send_AfterJoin ==
    /\ pc = "send"
    /\ writers = EmptyBag
    /\ replies' = replies + 1
    /\ pc' = "recv"
    /\ path' = "none"
    /\ inCde' = FALSE
    /\ qname' = <<>>
    /\ match' = NoMatch
    /\ domain' = <<>>
    /\ subdomain' = NoSub
    /\ ip' = None
    /\ fwdIp' = None
    /\ cached' = "none"
    /\ lookups' = 0
    /\ response' = NoMessage
    /\ upResp' = NoMessage
    /\ ioFailed' = FALSE
    /\ UNCHANGED <<res, nrm, replaced, config, now, db, writers, nq>>

(* response.to_wire() and sock.sendto(response, client_address); the
   locals of the handled query are gone when the loop is back at recvfrom. *)
Send ==
    /\ pc = "send"
    /\ replies' = replies + 1
    /\ pc' = "recv"
    /\ path' = "none"
    /\ inCde' = FALSE
    /\ qname' = <<>>
    /\ match' = NoMatch
    /\ domain' = <<>>
    /\ subdomain' = NoSub
    /\ ip' = None
    /\ fwdIp' = None
    /\ cached' = "none"
    /\ lookups' = 0
    /\ response' = NoMessage
    /\ upResp' = NoMessage
    /\ ioFailed' = FALSE
    /\ UNCHANGED <<res, nrm, replaced, config, now, db, writers, nq>>

(* A writer thread: timestamp = int(time.time()) ... *)
WriterStamp(w) ==
    /\ BagIn(w, writers)
    /\ w.ts = NoStamp
    /\ writers' = (writers (-) SetToBag({w})) (+) SetToBag({[w EXCEPT !.ts = now]})
    /\ UNCHANGED <<res, nrm, replaced, config, now, db, pc, path, inCde, qname, match, domain,
                   subdomain, ip, fwdIp, cached, lookups, response, upResp,
                   nq, replies, ioFailed>>

(* ... and its transaction. *)
WriterCommit(w) ==
    /\ BagIn(w, writers)
    /\ w.ts # NoStamp
    /\ db' = store_ip_in_db(db, w.domain, w.subdomain, w.ip, w.ts)
    /\ writers' = writers (-) SetToBag({w})
    /\ replaced' = (replaced \/ (w.ip # None /\ SelectRows(db, w.domain, w.subdomain) # <<>>))
    /\ UNCHANGED <<res, nrm, config, now, pc, path, inCde, qname, match, domain,
                   subdomain, ip, fwdIp, cached, lookups, response, upResp,
                   nq, replies, ioFailed>>

(* Time passes. *)
Tick(d) ==
    /\ now + d <= MaxTime
    /\ now' = now + d
    /\ UNCHANGED <<res, nrm, replaced, config, db, writers, pc, path, inCde, qname, match,
                   domain, subdomain, ip, fwdIp, cached, lookups, response,
                   upResp, nq, replies, ioFailed>>

(* A cache call of the receive loop fails in the storage layer
   (sqlite3.connect or execute raises): nothing in the cache functions or
   their callers catches it. *)
StorageError ==
    /\ pc \in {"check", "expire", "get"}
    /\ ioFailed' = TRUE
    /\ Raise
    /\ UNCHANGED <<res, nrm, replaced, config, now, db, writers, path, inCde, qname, match,
                   domain, subdomain, ip, fwdIp, cached, lookups, upResp, nq,
                   replies>>

(* A writer thread fails in the storage layer: the thread ends with the
   exception and nothing is stored. *)
WriterError(w) ==
    /\ BagIn(w, writers)
    /\ writers' = writers (-) SetToBag({w})
    /\ UNCHANGED <<res, nrm, replaced, config, now, db, pc, path, inCde, qname, match, domain,
                   subdomain, ip, fwdIp, cached, lookups, response, upResp,
                   nq, replies, ioFailed>>

WriterSet == BagToSet(writers)

Next ==
    \/ \E wire \in WireNames : Receive(wire)
    \/ \E out \in MdnsOutcomes : ResolveMdns(out)
    \/ CheckSelect
    \/ CheckExpire
    \/ GetIp
    \/ \E outcome \in LookupOutcomes : Resolve(outcome)
    \/ \E outcome \in LookupOutcomes, up \in UpstreamOutcomes : Forward(outcome, up)
    \/ Send
    \/ \E w \in WriterSet : WriterStamp(w)
    \/ \E w \in WriterSet : WriterCommit(w)
    \/ \E d \in TimeSteps : Tick(d)

Spec == Init /\ [][Next]_vars

NextIO ==
    \/ Next
    \/ StorageError
    \/ \E w \in WriterSet : WriterError(w)

SpecIO == Init /\ [][NextIO]_vars

(* ------------------ collaborators that never reply --------------------- *)

(* dns.query.udp(query, DNS_RESOLVER) is called without timeout: when the
   upstream never replies, the call never returns.  get_ip_or_domain has
   returned before it (dns.resolver.resolve gives up by itself). *)
ForwardHangs(outcome) ==
    /\ pc = "forward"
    /\ fwdIp' = get_ip_or_domain(Text(qname), outcome)
    /\ lookups' = lookups + 1
    /\ pc' = "blocked"
    /\ UNCHANGED <<res, nrm, replaced, config, now, db, writers, path, inCde, qname,
                   match, domain, subdomain, ip, cached, response, upResp, nq,
                   replies, ioFailed>>

(* subprocess.run(['avahi-resolve', ...]) is called without timeout: when
   the child never exits, the call never returns. *)
MdnsHangs ==
    /\ pc = "mdns"
    /\ pc' = "blocked"
    /\ UNCHANGED <<res, nrm, replaced, config, now, db, writers, path, inCde, qname,
                   match, domain, subdomain, ip, fwdIp, cached, lookups, response,
                   upResp, nq, replies, ioFailed>>

(* The steps of the receive loop, without the writer threads and time. *)
LoopNext ==
    \/ \E wire \in WireNames : Receive(wire)
    \/ \E out \in MdnsOutcomes : ResolveMdns(out)
    \/ CheckSelect
    \/ CheckExpire
    \/ GetIp
    \/ \E outcome \in LookupOutcomes : Resolve(outcome)
    \/ \E outcome \in LookupOutcomes, up \in UpstreamOutcomes : Forward(outcome, up)
    \/ Send

NextSilent ==
    \/ Next
    \/ \E outcome \in LookupOutcomes : ForwardHangs(outcome)
    \/ MdnsHangs

SpecSilent == Init /\ [][NextSilent]_vars

(* ------------------ the pure functions on their own --------------------- *)

(* Targets get_ip_or_domain is applied to, and what dns.resolver.resolve
   answers for the names among them: one outcome per name, the same each
   time the name is looked up. *)
ProbeNames == {"nas.example", "printer.local", "example.org"}
ProbeTargets == IPv4Literals \cup IPv6Literals \cup ProbeNames
LookupEnvs == [ProbeNames -> LookupOutcomes]

lookup_in(env, s) == IF s \in DOMAIN env THEN env[s] ELSE "fail"

InitPure ==
    /\ InitLoop
    /\ res \in [stage : {0}, x : ProbeTargets, env : LookupEnvs,
                 r1 : {None}, r2 : {None}]
    /\ nrm \in [stage : {0}, wire : WireNames \cup MixedCaseNames,
                 got : {NoMatch}]

(* get_ip_or_domain(x) *)
ResolveOnce ==
    /\ res.stage = 0
    /\ res' = [res EXCEPT !.stage = 1,
                          !.r1 = get_ip_or_domain(res.x, lookup_in(res.env, res.x))]
    /\ UNCHANGED <<nrm, loopVars>>

(* get_ip_or_domain of the result. *)
ResolveAgain ==
    /\ res.stage = 1
    /\ res' = [res EXCEPT !.stage = 2,
                          !.r2 = get_ip_or_domain(res.r1, lookup_in(res.env, res.r1))]
    /\ UNCHANGED <<nrm, loopVars>>

(* handle_dns_query from the question's name to the result of the matching
   loop. *)
MatchWire ==
    /\ nrm.stage = 0
    /\ nrm' = [nrm EXCEPT !.stage = 1,
                          !.got = Match(config, qname_of(nrm.wire))]
    /\ UNCHANGED <<res, loopVars>>

NextPure ==
    \/ ResolveOnce
    \/ ResolveAgain
    \/ MatchWire

SpecPure == InitPure /\ [][NextPure]_vars

(* --------------- three queries racing with their writers ---------------- *)

(* The server under one configuration, asked three times for names whose
   cache key has a subdomain: one matched, one forwarded. *)
RaceNames == {<<"nas", "home", "test", "">>, <<"www", "example", "org", "">>}

InitRace ==
    /\ Init
    /\ config = CfgScenario

NextRace ==
    \/ \E wire \in RaceNames : ReceiveN(wire, MaxRaceQueries)
    \/ CheckSelect
    \/ CheckExpire
    \/ GetIp
    \/ \E outcome \in LookupOutcomes : Resolve(outcome)
    \/ \E outcome \in LookupOutcomes, up \in UpstreamOutcomes : Forward(outcome, up)
    \/ Send
    \/ \E w \in WriterSet : WriterStamp(w)
    \/ \E w \in WriterSet : WriterCommit(w)
    \/ \E d \in TimeSteps : Tick(d)

SpecRace == InitRace /\ [][NextRace]_vars

(* ------------------------------- claims -------------------------------- *)

Handling == pc \in {"mdns", "check", "expire", "get", "resolve", "forward"}

(* C1: every received query is answered with a well-formed response and
   the receive loop keeps running: the loop never ends, a response about to
   be sent is a message, and back at recvfrom every datagram received has
   been answered. *)
C1_EveryQueryAnswered ==
    /\ pc # "crashed"
    /\ (pc = "send" => response # NoMessage)
    /\ (pc = "recv" => replies = nq)

(* C2: when check_if_resolution_valid finds the entry of its key expired,
   with or without a subdomain, it returns False to its caller and no entry
   of the key is left in the cache. *)
C2_ExpiredReadRemoves ==
    [][(pc = "expire" /\ pc' # "expire")
         => /\ pc' \in {"resolve", "forward"}
            /\ SelectRows(db', domain, subdomain) = <<>>]_vars

(* C3: for an entry of the checked key, check_if_resolution_valid returns
   False exactly when now - timestamp > 300: an entry of age at most 300 is
   reported valid and left in place, an older one is reported not valid. *)
C3_NotFoundIffOlderThanWindow ==
    [][/\ (pc = "check" /\ pc' # "check"
           /\ SelectRows(db, domain, subdomain) # <<>>)
          => IF now - SelectRows(db, domain, subdomain)[1].timestamp <= 300
             THEN pc' = "get" /\ db' = db
             ELSE pc' = "expire"
       /\ (pc = "expire" /\ pc' # "expire") => pc' \in {"resolve", "forward"}]_vars

(* C4: the cache never holds two entries of one (domain, subdomain) key,
   whatever stores and expiry deletions have run in whatever order. *)
C4_KeyUniqueness ==
    \A i, j \in 1..Len(db) :
        (db[i].domain = db[j].domain /\ db[i].subdomain = db[j].subdomain)
            => i = j

(* C4 witness: a store has replaced an entry of its key (one without a
   subdomain, where the primary key does not help), and the key has one
   entry. *)
C4_Witness ==
    /\ replaced
    /\ \E i \in 1..Len(db) : db[i].subdomain = NoSub /\ db[i].timestamp > 0

(* C5: when the local-network resolution of a .local target fails, the
   query is answered with a server failure that carries no record. *)
C5_LocalFailureIsServFail ==
    [][(pc = "mdns" /\ pc' \notin {"mdns", "check"})
         => (pc' = "send" /\ response' = ServFail)]_vars

(* C6: a query that matches a configured domain or subdomain whose target
   is an IPv4 literal is answered, whatever the cache holds for its key,
   with one A record for the queried name with the configured address and
   TTL 3600. *)
C6_LiteralTargetAnswered ==
    [][(/\ Handling
        /\ match.kind \in {"ExactDomain", "Subdomain"}
        /\ match.target \in IPv4Literals
        /\ pc' \in {"send", "crashed"})
         => /\ pc' = "send"
            /\ response' = [rcode |-> "NOERROR", from |-> "local",
                            answer |-> <<[name |-> qname, type |-> "A",
                                          ttl |-> 3600,
                                          ip |-> match.target]>>]]_vars

(* C7: a query name equal to a configured domain is matched as that
   domain with that domain's own target. *)
C7_ExactMatchWins ==
    \A i \in 1..Len(config) :
        (pc # "recv" /\ qname = config[i].domain)
            => /\ match.kind = "ExactDomain"
               /\ match.domain = config[i].domain
               /\ match.target = config[i].ip

(* C8: a query that matches nothing and whose decomposed key has no valid
   cache entry is forwarded upstream, and what the upstream answers is the
   response returned. *)
C8_NoMatchForwards ==
    (pc = "send" /\ path = "fwd" /\ ~inCde)
        => /\ upResp # NoMessage
           /\ (upResp \in UpstreamResponses => response = upResp)

(* C9: when create_dns_entry finds a fresh entry whose address differs from
   the configured target, it resolves the target again, answers with the
   resolved value and starts a writer thread for that value. *)
C9_ChangedEntryReResolved ==
    [][(pc = "resolve" /\ path \in {"match", "mdns"} /\ cached = "valid"
        /\ pc' # "resolve")
         => /\ pc' = "send"
            /\ response'.rcode = "NOERROR"
            /\ Len(response'.answer) = 1
            /\ response'.answer[1].ip = ip'
            /\ is_valid_ip(ip') # None
            /\ BagIn(Writer(domain, subdomain, ip', TRUE), writers')]_vars

(* C10: a storage error in a cache call of a query is handled as a miss:
   the loop keeps running, a matched query is answered with its record and
   an unmatched one is forwarded. *)
C10_StorageErrorIsAMiss ==
    ioFailed
        => /\ pc # "crashed"
           /\ (pc = "send" /\ path = "fwd" => upResp # NoMessage)
           /\ (pc = "send" /\ path # "fwd" => response.rcode = "NOERROR")

(* C11: on the no-match path an error raised while contacting the upstream
   resolver gives the client a server-failure response, and the loop then
   sends it and is back at recvfrom for the next query. *)
C11_UpstreamErrorIsServFail ==
    [][/\ (pc = "forward" /\ upResp' = UpstreamRaises)
            => (pc' = "send" /\ response' = ServFail)
       /\ (pc = "send" /\ upResp = UpstreamRaises /\ pc' # pc)
            => (pc' = "recv" /\ replies' = replies + 1)]_vars

(* The second query is about to be answered with SERVFAIL after the first
   one was (an answered query that leaves no writer and no entry behind is
   one whose upstream call raised). *)
C11_Witness ==
    /\ pc = "send"
    /\ upResp = UpstreamRaises
    /\ response = ServFail
    /\ nq = 2
    /\ replies = 1
    /\ writers = EmptyBag
    /\ db = <<>>

(* C12: a blocking call whose collaborator never replies is abandoned after
   a finite time and handled as a resolution failure: the receive loop is
   never left in a call that does not return, it always has a next step
   towards the reply of the query it is handling. *)
C12_BlockingCallsAbandoned == pc = "blocked" => ENABLED LoopNext

(* C13: get_ip_or_domain returns an address literal unchanged, returns a
   name whose lookup fails unchanged, and applied to its own result (the
   lookups answering as before) returns that result. *)
C13_AddressPassThrough ==
    /\ res.stage >= 1 =>
          /\ is_valid_ip(res.x) # None => res.r1 = res.x
          /\ (is_valid_ip(res.x) = None /\ lookup_in(res.env, res.x) = "fail")
                => res.r1 = res.x
    /\ res.stage = 2 => res.r2 = res.r1

C13_Witness ==
    /\ res.stage = 2
    /\ is_valid_ip(res.x) = None
    /\ lookup_in(res.env, res.x) = "fail"
    /\ res.r2 = res.x

(* C14: every entry of the cache has an ip that is a valid IPv4 or IPv6
   literal. *)
C14_CachedIpIsLiteral ==
    \A i \in 1..Len(db) : is_valid_ip(db[i].ip) # None

(* C15: a matched query handled while the cache holds a valid entry of its
   key is answered without a public DNS lookup, whether the configured
   target is an address literal or a domain name. *)
C15_ValidEntryReused ==
    (pc = "send" /\ path = "match" /\ cached = "valid") => lookups = 0

(* C16: the timestamp of an entry is set only when its key is resolved: a
   writer thread started by a query that reused the cached address leaves
   the timestamp of the key's entry as it was. *)
C16_StampOnlyOnResolution ==
    [][\A w \in WriterSet :
         (/\ writers' = writers (-) SetToBag({w})
          /\ ~w.resolved
          /\ SelectRows(db, w.domain, w.subdomain) # <<>>
          /\ SelectRows(db', w.domain, w.subdomain) # <<>>)
         => SelectRows(db', w.domain, w.subdomain)[1].timestamp
              = SelectRows(db, w.domain, w.subdomain)[1].timestamp]_vars

(* C17: within a query a writer thread is started only by the step that
   has constructed the response, and the loop sends the response whatever
   the writer threads are doing: with the response at hand, sending is
   always possible. *)
C17_WriteAfterResponseNoWait ==
    /\ [][BagCardinality(writers') > BagCardinality(writers)
            => (Handling /\ pc' = "send" /\ response' # NoMessage)]_vars
    /\ [](pc = "send" => ENABLED Send)

(* The reply of the first query has been sent and its write has not begun. *)
C17_Witness ==
    /\ pc = "recv"
    /\ nq = 1
    /\ replies = 1
    /\ db = <<>>
    /\ \E w \in WriterSet : w.ts = NoStamp

(* str.lower on the letters the names are made of. *)
LowerLabel(l) ==
    CASE l = "Home" -> "home"
      [] l = "HOME" -> "home"
      [] l = "Test" -> "test"
      [] l = "NAS" -> "nas"
      [] OTHER -> l

LowerName(q) == [i \in 1..Len(q) |-> LowerLabel(q[i])]

(* C18: the matching loop gives for a query name what it gives for the
   lower-cased name without its trailing separator. *)
C18_NormalizedMatch ==
    nrm.stage = 1 => nrm.got = Match(config, LowerName(StripDots(nrm.wire)))

(* C19: the DELETE of an expiry check removes only expired entries: when
   it changes the table, every entry of the key it deletes is older than
   five minutes. *)
C19_ExpiryRemovesOnlyExpired ==
    [][(pc = "expire" /\ pc' # "expire" /\ db' # db)
         => \A i \in 1..Len(db) :
              (db[i].domain = domain /\ db[i].subdomain = subdomain)
                => Expired(db[i].timestamp, now)]_vars

(* C20: when the loop is at get_ip_from_db after a check that returned
   True, the table holds an entry of the key and the read returns its
   address. *)
C20_CheckThenReadSafe ==
    pc = "get" => get_ip_from_db(db, domain, subdomain) # None

(* resolve_dns_entry has read the address, a writer has replaced the entry
   with another address since, and create_dns_entry is at its read. *)
C20_Witness ==
    /\ pc = "get"
    /\ inCde
    /\ path = "fwd"
    /\ get_ip_from_db(db, domain, subdomain) \notin {fwdIp, None}

====
